---- MODULE Spec2Model ----
(***************************************************************************)
(* Model of prototype/lexer/lol_lexer_types.py: the TokenType enumeration, *)
(* the Token record with its to_dict projection, and the CharacterStream   *)
(* cursor (get_text, get_char, next_char, get_pos).                        *)
(*                                                                         *)
(* A Python str is modelled as a sequence of one-character strings; Python *)
(* offsets are 0-based, so text[i] in the source is text[i + 1] here.      *)
(***************************************************************************)
EXTENDS Integers, Sequences, FiniteSets

VARIABLES
    text,           \* CharacterStream.text
    idx,            \* CharacterStream.idx
    line_number,    \* CharacterStream.line_number
    column_number,  \* CharacterStream.column_number
    given,          \* the text handed to CharacterStream.__init__
    op,             \* the method called last
    ret,            \* what that call returned (or the exception it raised)
    stamp,          \* a get_pos triple the caller kept, <<>> while none is kept
    token,          \* the fields of the Token under construction/inspection
    dict,           \* the dict the caller got from Token.to_dict, <<>> before
    pc,             \* position of the draining caller's loop
    read,           \* characters the draining loop has read, in order
    advances        \* number of next_char calls the draining loop has made

stream == <<text, idx, line_number, column_number>>
vars == <<text, idx, line_number, column_number, given, op, ret, stamp,
          token, dict, pc, read, advances>>

----------------------------------------------------------------------------
(* Bounds of the model *)

MaxLen == 3        \* longest enumerated source text
MaxLexeme == 2     \* longest enumerated Token lexeme
MaxTokPos == 2     \* largest offset / line / column given to a Token
DrainSlack == 2    \* extra loop iterations allowed beyond len(text)

----------------------------------------------------------------------------
(* Python values *)

None == "None"               \* the None object
IndexError == "IndexError"   \* str.__getitem__ out of range
NL == "\n"

Alphabet == {"a", NL}

RECURSIVE StringsUpTo(_)
StringsUpTo(n) ==
    IF n = 0 THEN {<<>>}
    ELSE LET shorter == StringsUpTo(n - 1)
         IN shorter \cup {Append(s, c) : s \in {t \in shorter : Len(t) = n - 1},
                                         c \in Alphabet}

\* the end-to-end example text `let x = 5;\n`
LetExample == <<"l", "e", "t", " ", "x", " ", "=", " ", "5", ";", NL>>

Texts == StringsUpTo(MaxLen) \cup {LetExample}

\* s[i] on a Python str: negative offsets count from the end, anything
\* outside [-len, len) raises IndexError
PyIndex(s, i) ==
    IF 0 <= i /\ i < Len(s) THEN s[i + 1]
    ELSE IF -Len(s) <= i /\ i < 0 THEN s[Len(s) + i + 1]
    ELSE IndexError

----------------------------------------------------------------------------
(* class TokenType(Enum), members in declaration order; auto() numbers     *)
(* them 1, 2, 3, ...                                                       *)

PunctuationNames ==
    << "LPAREN", "RPAREN", "LSQB", "RSQB", "LBRACE", "RBRACE",
       "DOT", "COMMA", "EQUAL", "COLON", "SEMICOLON",
       "ARROW",
       "COLON_COLON", "EXCLAMATION", "AT", "PERCENT", "CIRCUMFLEX",
       "AMPERSAND", "STAR", "PLUS", "MINUS", "SLASH",
       "RSHIFT", "LSHIFT", "QUESTION", "VBAR", "BSLASH",
       "EQUAL_EQUAL", "NOT_EQUAL", "GREATER", "LESSER",
       "GREATER_EQUAL", "LESSER_EQUAL",
       "STAR_STAR", "PLUS_PLUS", "MINUS_MINUS", "SLASH_SLASH",
       "NEWLINE" >>

IdentifierNames == << "IDENTIFIER" >>

LiteralNames == << "STRING", "DEC" >>

CommentNames == << "COMMENT" >>

KeywordNames ==
    << "IF", "ELSE", "WHILE", "FUNCTION", "RETURN", "LET", "NAMESPACE",
       "MODULE", "IMPORT", "PRINT" >>

TokenTypeNames ==
    PunctuationNames \o IdentifierNames \o LiteralNames \o CommentNames
        \o KeywordNames

TokenType ==
    {[name |-> TokenTypeNames[i], value |-> i] : i \in DOMAIN TokenTypeNames}

Range(s) == {s[i] : i \in DOMAIN s}

----------------------------------------------------------------------------
(* class CharacterStream *)

\* mutant: columns counted from 0
CharacterStream_init_zero_based(t) ==
    /\ text = t
    /\ idx = 0
    /\ line_number = 1
    /\ column_number = 0

\* __init__(self, text)
CharacterStream_init(t) ==
    /\ text = t
    /\ idx = 0
    /\ line_number = 1
    /\ column_number = 1

\* get_text(self)
get_text == text

\* mutant: end-of-input test off by one
get_char_off_by_one ==
    IF idx > Len(text) THEN None ELSE PyIndex(text, idx)

\* mutant: reads the character before the cursor
get_char_prev ==
    IF idx >= Len(text) THEN None ELSE PyIndex(text, idx - 1)

\* get_char(self)
get_char ==
    IF idx >= Len(text) THEN None ELSE PyIndex(text, idx)

\* mutant: a newline does not reset the column
next_char_keeps_column ==
    LET c == get_char
    IN  IF c = None
        THEN UNCHANGED stream /\ ret' = None
        ELSE /\ text' = text
             /\ idx' = idx + 1
             /\ line_number' = IF c = NL THEN line_number + 1 ELSE line_number
             /\ column_number' = column_number + 1
             /\ ret' = None

\* mutant: no early return at end-of-input
next_char_no_end_check ==
    /\ text' = text
    /\ idx' = idx + 1
    /\ IF get_char = NL
       THEN line_number' = line_number + 1 /\ column_number' = 1
       ELSE line_number' = line_number /\ column_number' = column_number + 1
    /\ ret' = None

\* mutant: the consumed character is removed from the text
next_char_pops_text ==
    LET c == get_char
    IN  IF c = None
        THEN UNCHANGED stream /\ ret' = None
        ELSE /\ text' = Tail(text)
             /\ idx' = idx
             /\ IF c = NL
                THEN line_number' = line_number + 1 /\ column_number' = 1
                ELSE line_number' = line_number
                     /\ column_number' = column_number + 1
             /\ ret' = None

\* mutant: the offset is advanced only when the character is no newline
next_char_newline_stuck ==
    LET c == get_char
    IN  IF c = None
        THEN UNCHANGED stream /\ ret' = None
        ELSE /\ text' = text
             /\ IF c = NL
                THEN /\ idx' = idx
                     /\ line_number' = line_number + 1
                     /\ column_number' = 1
                ELSE /\ idx' = idx + 1
                     /\ line_number' = line_number
                     /\ column_number' = column_number + 1
             /\ ret' = None

\* next_char(self): the effect on the object's fields and the call's outcome
next_char ==
    LET c == get_char
    IN  IF c = IndexError
        THEN /\ UNCHANGED stream
             /\ ret' = IndexError
        ELSE IF c = None
        THEN /\ UNCHANGED stream
             /\ ret' = None
        ELSE /\ text' = text
             /\ idx' = idx + 1
             /\ IF c = NL
                THEN /\ line_number' = line_number + 1
                     /\ column_number' = 1
                ELSE /\ line_number' = line_number
                     /\ column_number' = column_number + 1
             /\ ret' = None

\* mutant: line and column in the wrong order
get_pos_swapped == <<idx, column_number, line_number>>

\* get_pos(self)
get_pos == <<idx, line_number, column_number>>

----------------------------------------------------------------------------
(* Calls on a CharacterStream, in any order *)

NoToken == [made |-> FALSE]
NoDict == <<>>

Init ==
    /\ \E t \in Texts : CharacterStream_init(t)
    /\ given = text
    /\ op = "init"
    /\ ret = None
    /\ stamp = <<>>
    /\ token = NoToken
    /\ dict = NoDict
    /\ pc = "peek"
    /\ read = <<>>
    /\ advances = 0

GetText ==
    /\ op' = "get_text"
    /\ ret' = get_text
    /\ UNCHANGED <<stream, given, stamp, token, dict, pc, read, advances>>

GetChar ==
    /\ op' = "get_char"
    /\ ret' = get_char
    /\ UNCHANGED <<stream, given, stamp, token, dict, pc, read, advances>>

NextChar ==
    /\ op' = "next_char"
    /\ next_char
    /\ UNCHANGED <<given, stamp, token, dict, pc, read, advances>>

\* keep: whether the caller holds on to the returned triple
GetPos(keep) ==
    /\ op' = "get_pos"
    /\ ret' = get_pos
    /\ stamp' = IF keep THEN get_pos ELSE stamp
    /\ UNCHANGED <<stream, given, token, dict, pc, read, advances>>

Next ==
    \/ GetText
    \/ GetChar
    \/ NextChar
    \/ \E keep \in BOOLEAN : GetPos(keep)

Spec == Init /\ [][Next]_vars

----------------------------------------------------------------------------
(* class Token *)

\* __init__(self, idx, line_number, column_number, token_type, lexeme)
Token_init(i, ln, col, tt, lx) ==
    [made |-> TRUE, idx |-> i, line_number |-> ln, column_number |-> col,
     token_type |-> tt, lexeme |-> lx]

\* mutant: line and column numbers under each other's key
to_dict_swapped(tok) ==
    << <<"TokenType", tok.token_type.name>>,
       <<"StartPosition", tok.idx>>,
       <<"LineNumber", tok.column_number>>,
       <<"ColumnNumber", tok.line_number>>,
       <<"LexemeLength", Len(tok.lexeme)>>,
       <<"Lexeme", tok.lexeme>> >>

\* to_dict(self): a Python dict keeps its entries in insertion order, so the
\* result is the sequence of its (key, value) entries
to_dict(tok) ==
    << <<"TokenType", tok.token_type.name>>,
       <<"StartPosition", tok.idx>>,
       <<"LineNumber", tok.line_number>>,
       <<"ColumnNumber", tok.column_number>>,
       <<"LexemeLength", Len(tok.lexeme)>>,
       <<"Lexeme", tok.lexeme>> >>

\* is_type(self, token_type)
is_type(tok, tt) == tok.token_type = tt

\* as_str(self)
as_str(tok) == tok.lexeme

\* type(self)
type(tok) == tok.token_type

\* type_name(self)
type_name(tok) == tok.token_type.name

Lexemes == StringsUpTo(MaxLexeme)

\* a Token built from any arguments, beside an unused stream
InitToken ==
    /\ CharacterStream_init(<<>>)
    /\ given = text
    /\ op = "Token"
    /\ ret = None
    /\ stamp = <<>>
    /\ \E i \in 0..MaxTokPos, ln \in 1..MaxTokPos, col \in 1..MaxTokPos,
          tt \in TokenType, lx \in Lexemes :
            token = Token_init(i, ln, col, tt, lx)
    /\ dict = NoDict
    /\ pc = "peek"
    /\ read = <<>>
    /\ advances = 0

IsType(tt) ==
    /\ op' = "is_type"
    /\ ret' = is_type(token, tt)
    /\ UNCHANGED <<stream, given, stamp, token, dict, pc, read, advances>>

AsStr ==
    /\ op' = "as_str"
    /\ ret' = as_str(token)
    /\ UNCHANGED <<stream, given, stamp, token, dict, pc, read, advances>>

Type ==
    /\ op' = "type"
    /\ ret' = type(token)
    /\ UNCHANGED <<stream, given, stamp, token, dict, pc, read, advances>>

TypeName ==
    /\ op' = "type_name"
    /\ ret' = type_name(token)
    /\ UNCHANGED <<stream, given, stamp, token, dict, pc, read, advances>>

ToDict ==
    /\ op' = "to_dict"
    /\ ret' = to_dict(token)
    /\ dict' = to_dict(token)
    /\ UNCHANGED <<stream, given, stamp, token, pc, read, advances>>

NextToken ==
    \/ \E tt \in TokenType : IsType(tt)
    \/ AsStr
    \/ Type
    \/ TypeName
    \/ ToDict

SpecToken == InitToken /\ [][NextToken]_vars

----------------------------------------------------------------------------
(* A caller draining a fresh CharacterStream:                              *)
(*     while (c := stream.get_char()) is not None: stream.next_char()      *)

DrainPeek ==
    /\ pc = "peek"
    /\ advances < Len(text) + DrainSlack
    /\ op' = "get_char"
    /\ ret' = get_char
    /\ IF get_char = IndexError
       THEN pc' = "raised" /\ read' = read
       ELSE IF get_char = None
       THEN pc' = "done" /\ read' = read
       ELSE pc' = "advance" /\ read' = Append(read, get_char)
    /\ UNCHANGED <<stream, given, stamp, token, dict, advances>>

DrainAdvance ==
    /\ pc = "advance"
    /\ op' = "next_char"
    /\ next_char
    /\ advances' = advances + 1
    /\ pc' = IF ret' = IndexError THEN "raised" ELSE "peek"
    /\ UNCHANGED <<given, stamp, token, dict, read>>

NextDrain ==
    \/ DrainPeek
    \/ DrainAdvance

SpecDrain == Init /\ [][NextDrain]_vars /\ WF_vars(NextDrain)

----------------------------------------------------------------------------
(* Properties *)

\* number of newline characters in the first n characters of t
NewlinesIn(t, n) == Cardinality({i \in 1..n : t[i] = NL})

\* 1-based index of the last newline among the first n characters of t, 0 if
\* there is none
LastNewline(t, n) ==
    LET at == {i \in 1..n : t[i] = NL}
    IN  IF at = {} THEN 0 ELSE CHOOSE i \in at : \A j \in at : j <= i

\* the (offset, line, column) of the character at 0-based offset n of t
PositionOf(t, n) == <<n, 1 + NewlinesIn(t, n), 1 + n - LastNewline(t, n)>>

\* C1: a next_char call made before end-of-input raises idx by exactly 1; if
\* the character consumed is a newline it raises line_number by exactly 1 and
\* sets column_number to 1, otherwise it raises column_number by exactly 1
\* and leaves line_number alone.
C1_NextCharConsumesOne ==
    [][(op' = "next_char" /\ idx < Len(text)) =>
            /\ idx' = idx + 1
            /\ IF text[idx + 1] = NL
               THEN line_number' = line_number + 1 /\ column_number' = 1
               ELSE line_number' = line_number
                    /\ column_number' = column_number + 1]_vars

C1_Witness ==
    /\ op = "next_char"
    /\ idx = 3
    /\ text = <<"a", NL, "a">>
    /\ line_number = 2
    /\ column_number = 2

\* C2: in every reachable state line_number is 1 plus the number of newlines
\* in the consumed prefix text[0:idx], and column_number is 1 plus the number
\* of characters consumed since the last newline of that prefix (idx + 1 when
\* it holds none); column_number is 1 right after a newline is consumed, and
\* after all of `let x = 5;\n` is consumed the position is line 2, column 1.
C2_LineColumnTrackPrefix ==
    /\ line_number = 1 + NewlinesIn(text, idx)
    /\ column_number = 1 + idx - LastNewline(text, idx)
    /\ (NewlinesIn(text, idx) = 0 => column_number = idx + 1)
    /\ (idx > 0 /\ text[idx] = NL => column_number = 1)
    /\ (text = LetExample /\ idx = Len(text) =>
            line_number = 2 /\ column_number = 1)

C2_Witness ==
    /\ text = LetExample
    /\ idx = Len(LetExample)
    /\ op = "next_char"

\* C3: a next_char call made at end-of-input changes none of idx, line_number
\* and column_number and raises nothing, however often it is repeated, and a
\* get_char call made there returns None; the empty text included.
C3_NextCharAtEndIsNoOp ==
    /\ [][(op' = "next_char" /\ idx = Len(text)) =>
            /\ UNCHANGED <<idx, line_number, column_number>>
            /\ ret' # IndexError]_vars
    /\ []((op = "get_char" /\ idx = Len(text)) => ret = None)

C3_Witness ==
    /\ op = "next_char"
    /\ text = <<>>
    /\ idx = 0
    /\ line_number = 1
    /\ column_number = 1

\* C4: get_char returns text[idx] while idx < len(text) and None exactly when
\* idx has reached len(text); it never raises, and it leaves idx, line_number
\* and column_number as they were.
C4_GetCharPeeks ==
    /\ [](op = "get_char" =>
            /\ ret # IndexError
            /\ ret = (IF idx < Len(text) THEN text[idx + 1] ELSE None)
            /\ (ret = None <=> idx = Len(text)))
    /\ [][op' = "get_char" =>
            UNCHANGED <<idx, line_number, column_number>>]_vars

C4_Witness ==
    /\ op = "get_char"
    /\ text = <<"a", NL>>
    /\ idx = 1
    /\ ret = NL

\* C5: no operation lowers idx, and 0 <= idx <= len(text) always.
C5_IdxMonotoneBounded ==
    /\ [][idx' >= idx]_vars
    /\ [](0 <= idx /\ idx <= Len(text))

C5_Witness ==
    /\ op = "next_char"
    /\ ret = None
    /\ Len(text) = 2
    /\ idx = Len(text)

\* C6: text always is the text given at construction; get_char, get_pos and
\* get_text change no field of the stream, and next_char changes no field
\* other than idx, line_number and column_number.
C6_TextReadOnly ==
    /\ [](text = given)
    /\ [][/\ op' \in {"get_char", "get_pos", "get_text"} => UNCHANGED stream
          /\ op' = "next_char" => text' = text]_vars

C6_Witness ==
    /\ op = "get_text"
    /\ idx = 2
    /\ ret = <<NL, "a", NL>>
    /\ text = <<NL, "a", NL>>

\* C7: get_pos returns (idx, line_number, column_number) in that order, and a
\* triple the caller kept still is the position (0-based offset, 1-based line,
\* 1-based column) of the character it was taken at after any later
\* next_char calls.
C7_GetPosSnapshot ==
    /\ (op = "get_pos" => ret = <<idx, line_number, column_number>>)
    /\ (stamp # <<>> =>
            /\ stamp[1] <= idx
            /\ stamp = PositionOf(text, stamp[1]))

C7_Witness ==
    /\ op = "next_char"
    /\ text = <<"a", NL, "a">>
    /\ stamp = <<1, 1, 2>>
    /\ idx = 3

\* C8: to_dict returns exactly six entries in the order kind name (the enum
\* member's name), start offset, line number, column number, lexeme length,
\* lexeme; the length entry is the length of the lexeme entry, and the call
\* leaves the token's fields as they were.
C8_ToDictProjection ==
    /\ [](dict # NoDict =>
            /\ Len(dict) = 6
            /\ \A i \in 1..6 : Len(dict[i]) = 2
            /\ [i \in 1..6 |-> dict[i][1]] =
                 << "TokenType", "StartPosition", "LineNumber",
                    "ColumnNumber", "LexemeLength", "Lexeme" >>
            /\ dict[1][2] = TokenTypeNames[token.token_type.value]
            /\ dict[2][2] = token.idx
            /\ dict[3][2] = token.line_number
            /\ dict[4][2] = token.column_number
            /\ dict[5][2] = Len(dict[6][2])
            /\ dict[6][2] = token.lexeme)
    /\ [][op' = "to_dict" => token' = token]_vars

C8_Witness ==
    /\ op = "to_dict"
    /\ token.token_type.name = "LET"
    /\ token.line_number = 1
    /\ token.column_number = 2
    /\ dict[5] = <<"LexemeLength", 2>>

\* C9: the TokenType enumeration has an end-of-input kind, one that is none
\* of the punctuation, identifier, literal, comment and keyword kinds, so
\* that a stream at end-of-input can be given an end-of-input Token with an
\* empty lexeme at its position.
C9_EndOfInputKindExists ==
    idx = Len(text) =>
        \E k \in TokenType :
            /\ k.name \notin Range(PunctuationNames) \cup Range(IdentifierNames)
                    \cup Range(LiteralNames) \cup Range(CommentNames)
                    \cup Range(KeywordNames)
            /\ Token_init(idx, line_number, column_number, k, <<>>).made

\* C10: the loop `read get_char; stop if None; else next_char` on a fresh
\* stream over a text of length N terminates, having made exactly N advances
\* and read text[0], ..., text[N-1] in order, each once, with idx = N.
C10_DrainReadsTextOnce ==
    /\ <>(pc = "done")
    /\ [](pc # "raised")
    /\ [](Len(read) <= Len(text) /\ read = SubSeq(text, 1, Len(read)))
    /\ [](pc = "done" =>
            /\ idx = Len(text)
            /\ advances = Len(text)
            /\ read = text)

C10_Witness ==
    /\ pc = "done"
    /\ text = <<"a", NL, "a">>
    /\ read = text
    /\ advances = 3

====
